---------------------------- MODULE Spec2Model ----------------------------
(***************************************************************************)
(* SmoothAudioProcessor (src/smooth_processor.py): one session of          *)
(* start_processing with its four threads of control:                      *)
(*   - the session controller (start_processing itself),                   *)
(*   - the keyboard thread (keyboard_listener),                            *)
(*   - the capture callback (input_callback -> process_audio -> put),      *)
(*   - the playback callback (output_callback).                            *)
(*                                                                         *)
(* The three mix parameters are Python floats that move in steps of 0.05   *)
(* and 0.1; they are kept here in hundredths (0.6 is 60, 1.5 is 150).      *)
(* The clamps max(0.0, .) and min(bound, .) are exact in floating point,   *)
(* so the range of a field does not depend on the rounding of the steps.   *)
(*                                                                         *)
(* An audio block is named by the number of the capture invocation that    *)
(* produced it (1, 2, ...); the silence block of the pre-fill, and the     *)
(* zeros written on an underrun, are SilenceBlock.                         *)
(***************************************************************************)
EXTENDS Integers, Sequences, FiniteSets, TLC

VARIABLES
    is_running,          \* self.is_running
    center_attenuation,  \* self.center_attenuation, in hundredths
    vocal_removal_mix,   \* self.vocal_removal_mix, in hundredths
    master_volume,       \* self.master_volume, in hundredths
    audio_queue,         \* self.audio_queue: the blocks it holds, oldest first
    param_lock,          \* self.param_lock: "free", or the thread holding it
    main_pc,             \* where start_processing is
    in_stream,           \* the InputStream: "closed", "active" or "aborted"
    out_stream,          \* the OutputStream: "closed", "active" or "aborted"
    kbd_pc,              \* where keyboard_listener is
    kbd_key,             \* the key keyboard_listener read with getch()
    kbd_before,          \* history: the parameters when the listener began the
                         \* branch of that key, << >> outside a branch
    in_pc,               \* where the current input_callback invocation is
    in_block,            \* the block that invocation is producing
    snap_vrm,            \* the value process_audio read at line 57
    snap_ca,             \* the value process_audio read at line 60
    snap_mv,             \* the value process_audio read at line 66
    outdata,             \* what output_callback last wrote to the output buffer
    produced,            \* history: number of blocks process_audio returned
    played,              \* history: what each output_callback invocation obtained
    dropped,             \* history: blocks put_nowait refused (queue.Full)
    error_at,            \* history: `produced` when input_callback first caught a
                         \* processing error, NoValue before
    fatal_reported,      \* history: a callback was handed a fatal status
    short_blocks,        \* history: blocks produced with a wrong number of frames
    stops,               \* history: times is_running went from TRUE to FALSE
    mix_input,           \* a block handed to process_audio on its own
    mix_output           \* what process_audio returned for it

vars == << is_running, center_attenuation, vocal_removal_mix, master_volume,
           audio_queue, param_lock, main_pc, in_stream, out_stream, kbd_pc, kbd_key,
           kbd_before, in_pc, in_block, snap_vrm, snap_ca, snap_mv, outdata,
           produced, played, dropped, error_at, fatal_reported, short_blocks,
           stops, mix_input, mix_output >>

params == << center_attenuation, vocal_removal_mix, master_volume >>
capture_vars == << in_pc, in_block, snap_vrm, snap_ca, snap_mv >>
keyboard_vars == << kbd_pc, kbd_key, kbd_before >>
history_vars == << produced, played, dropped, error_at, fatal_reported, short_blocks >>
mix_vars == << mix_input, mix_output >>
streams == << in_stream, out_stream >>

----------------------------------------------------------------------------
\* Program constants (lines 19-24, 132-152 and 172).

QueueMaxSize == 20
PrefillCount == 10

DefaultCenter == 60
DefaultVocal  == 100
DefaultVolume == 100

CenterStep == 5
VocalStep  == 10
VolumeStep == 5

ParamMin  == 0
CenterMax == 100
VocalMax  == 100
VolumeMax == 150

\* Bounds of the model: what the environment does in one session.
MaxBlocks      == 13   \* blocks the capture callback is handed
MaxPlay        == 14   \* playback invocations
MaxUnderruns   == 2    \* of which on an empty queue
SmallBlocks    == 2    \* the same three, for the specifications that follow
SmallPlay      == 2    \* the parameters or the faults rather than the queue
SmallUnderruns == 1

SilenceBlock == 0
Underrun     == -1   \* entry of `played` for an invocation that found the queue empty
NoKey        == "none"
NoValue      == -1   \* a local of process_audio that holds nothing

\* The keys the console can deliver: the eight the listener recognizes, a
\* character it does not ("x"), and "arrow", the prefix byte 0xE0 that getch()
\* returns first for an arrow or navigation key.
AllKeys == {"1", "2", "3", "4", "5", "6", "r", "q", "x", "arrow"}
\* The keys with a branch in lines 131-158.
RecognizedKeys == {"1", "2", "3", "4", "5", "6", "r", "q"}
\* The status the runtime hands a callback.
Statuses == {"ok", "glitch", "fatal"}
\* Shapes of the block the runtime hands input_callback: (block_size, 2),
\* (block_size, 1), (block_size, 0), and (frames, 2) with frames # block_size.
Shapes == {"stereo", "mono", "zero_channels", "short_frames"}

\* 1.0 in hundredths, the unit of the parameters and of the input samples.
One == 100
\* A block of samples: its number of channels and its frames, each a tuple of
\* one sample per channel.  NoBlock: no block was handed to process_audio.
NoBlock == [channels |-> 0, frames |-> << >>]
\* What a call of process_audio came to: nothing yet, a block, or an error.
NoOutput == [status |-> "none", block |-> << >>]

Max(a, b) == IF a >= b THEN a ELSE b
Min(a, b) == IF a <= b THEN a ELSE b

----------------------------------------------------------------------------
Init ==
    /\ is_running = FALSE
    /\ center_attenuation = DefaultCenter
    /\ vocal_removal_mix = DefaultVocal
    /\ master_volume = DefaultVolume
    /\ audio_queue = << >>
    /\ param_lock = "free"
    /\ main_pc = "idle"
    /\ in_stream = "closed"
    /\ out_stream = "closed"
    /\ kbd_pc = "unstarted"
    /\ kbd_key = NoKey
    /\ kbd_before = << >>
    /\ in_pc = "idle"
    /\ in_block = SilenceBlock
    /\ snap_vrm = NoValue
    /\ snap_ca = NoValue
    /\ snap_mv = NoValue
    /\ outdata = SilenceBlock
    /\ produced = 0
    /\ played = << >>
    /\ dropped = {}
    /\ error_at = NoValue
    /\ fatal_reported = FALSE
    /\ short_blocks = {}
    /\ stops = 0
    /\ mix_input = NoBlock
    /\ mix_output = NoOutput

\* is_running := v, counting the TRUE -> FALSE transitions.
SetRunning(v) ==
    /\ is_running' = v
    /\ stops' = IF is_running /\ ~v THEN stops + 1 ELSE stops

----------------------------------------------------------------------------
\* The transfer buffer: queue.Queue(maxsize=20).

\* A put that never finds the queue full.
PutNowaitUnbounded(q, b) == Append(q, b)

\* A put that makes room by discarding the oldest block.
PutNowaitDropOldest(q, b) ==
    IF Len(q) < QueueMaxSize THEN Append(q, b) ELSE Append(Tail(q), b)

\* put_nowait: queue.Full is raised, and caught by the caller, when the queue
\* already holds maxsize items.
PutNowait(q, b) == IF Len(q) < QueueMaxSize THEN Append(q, b) ELSE q

\* A get that hands out the newest item.
GetNowaitNewest(q) == q[Len(q)]

\* get_nowait on a queue that is not empty: the item it returns, and the queue
\* it leaves.
GetNowaitItem(q) == Head(q)
GetNowaitRest(q) == Tail(q)

\* The blocking put of the pre-fill, n times, on a queue with room for them.
RECURSIVE PutSilence(_, _)
PutSilence(q, n) == IF n = 0 THEN q ELSE PutSilence(Append(q, SilenceBlock), n - 1)

\* An underrun that leaves in outdata what it held.
FillStale(prev) == prev

\* outdata.fill(0) of line 105, whatever outdata held.
FillSilence(prev) == SilenceBlock

----------------------------------------------------------------------------
\* start_processing.

\* Line 164.
StartSession ==
    /\ main_pc = "idle"
    /\ SetRunning(TRUE)
    /\ main_pc' = "start_thread"
    /\ UNCHANGED << params, audio_queue, param_lock, streams, keyboard_vars,
                    capture_vars, outdata, history_vars, mix_vars >>

\* Lines 167-168.
StartKeyboardThread ==
    /\ main_pc = "start_thread"
    /\ kbd_pc' = "poll"
    /\ main_pc' = "prefill"
    /\ UNCHANGED << is_running, stops, params, audio_queue, param_lock, streams,
                    kbd_key, kbd_before, capture_vars, outdata, history_vars, mix_vars >>

\* start_processing going on to open the streams with nothing put.
PrefillSkipped ==
    /\ main_pc = "prefill"
    /\ main_pc' = "open"
    /\ UNCHANGED << is_running, stops, params, audio_queue, param_lock, streams,
                    keyboard_vars, capture_vars, outdata, history_vars, mix_vars >>

\* Lines 171-173.  No stream is open yet and the keyboard thread never touches
\* the queue, so no other thread can observe the ten puts one by one.
Prefill ==
    /\ main_pc = "prefill"
    /\ Len(audio_queue) + PrefillCount <= QueueMaxSize   \* put() would block otherwise
    /\ audio_queue' = PutSilence(audio_queue, PrefillCount)
    /\ main_pc' = "open"
    /\ UNCHANGED << is_running, stops, params, param_lock, streams, keyboard_vars,
                    capture_vars, outdata, history_vars, mix_vars >>

\* Lines 177-193: both streams open; the runtime starts invoking the callbacks.
OpenStreams ==
    /\ main_pc = "open"
    /\ in_stream' = "active"
    /\ out_stream' = "active"
    /\ main_pc' = "wait"
    /\ UNCHANGED << is_running, stops, params, audio_queue, param_lock, keyboard_vars,
                    capture_vars, outdata, history_vars, mix_vars >>

\* Lines 177-192 raise (no such device, ...): lines 200-204.
OpenFail ==
    /\ main_pc = "open"
    /\ SetRunning(FALSE)
    /\ main_pc' = "closed"
    /\ UNCHANGED << params, audio_queue, param_lock, streams, keyboard_vars,
                    capture_vars, outdata, history_vars, mix_vars >>

\* A wait loop that sleeps again whatever is_running is.
WaitLoopSleepAlways ==
    /\ main_pc = "wait"
    /\ main_pc' = "sleep"
    /\ UNCHANGED << is_running, stops, params, audio_queue, param_lock, streams,
                    keyboard_vars, capture_vars, outdata, history_vars, mix_vars >>

\* Line 194 with is_running TRUE, then line 195: sd.sleep(100).
WaitLoopSleep ==
    /\ main_pc = "wait"
    /\ is_running
    /\ main_pc' = "sleep"
    /\ UNCHANGED << is_running, stops, params, audio_queue, param_lock, streams,
                    keyboard_vars, capture_vars, outdata, history_vars, mix_vars >>

\* sd.sleep(100) returns: back to line 194.
WaitLoopWake ==
    /\ main_pc = "sleep"
    /\ main_pc' = "wait"
    /\ UNCHANGED << is_running, stops, params, audio_queue, param_lock, streams,
                    keyboard_vars, capture_vars, outdata, history_vars, mix_vars >>

\* Line 194 with is_running FALSE: the loop ends and the with statement closes
\* both streams; no callback is invoked from here on.
WaitLoopExit ==
    /\ main_pc = "wait"
    /\ ~is_running
    /\ in_stream' = "closed"
    /\ out_stream' = "closed"
    /\ main_pc' = "closing"
    /\ UNCHANGED << is_running, stops, params, audio_queue, param_lock, keyboard_vars,
                    capture_vars, outdata, history_vars, mix_vars >>

\* KeyboardInterrupt inside the try statement of line 175: the with statement,
\* if entered, closes the streams, then lines 197-199 run.
Interrupt ==
    /\ main_pc \in {"open", "wait", "sleep"}
    /\ in_stream' = "closed"
    /\ out_stream' = "closed"
    /\ main_pc' = "interrupted"
    /\ UNCHANGED << is_running, stops, params, audio_queue, param_lock, keyboard_vars,
                    capture_vars, outdata, history_vars, mix_vars >>

\* Closing a stream waits for the callback invocation in flight; then
\* start_processing returns (after line 199 on an interrupt).
SessionClosed ==
    /\ main_pc \in {"closing", "interrupted"}
    /\ in_pc = "idle"
    /\ IF main_pc = "interrupted" THEN SetRunning(FALSE)
                                  ELSE UNCHANGED << is_running, stops >>
    /\ main_pc' = "closed"
    /\ UNCHANGED << params, audio_queue, param_lock, streams, keyboard_vars,
                    capture_vars, outdata, history_vars, mix_vars >>

----------------------------------------------------------------------------
\* keyboard_listener.

\* Line 126 with is_running FALSE: the thread ends.
KbdExit ==
    /\ kbd_pc = "poll"
    /\ ~is_running
    /\ kbd_pc' = "done"
    /\ UNCHANGED << is_running, stops, params, audio_queue, param_lock, main_pc,
                    streams, kbd_key, kbd_before, capture_vars, outdata, history_vars, mix_vars >>

\* Whether decode('utf-8') of line 128 accepts the byte getch() returned: the
\* lone byte 0xE0 begins a multi-byte sequence that never ends.
Decodes(k) == k # "arrow"

\* Lines 126-128: is_running is TRUE, a key is waiting, getch() returns it.
\* A byte that does not decode raises UnicodeDecodeError, which nothing in
\* keyboard_listener catches: the thread ends there.
KbdGetch(k) ==
    /\ kbd_pc = "poll"
    /\ is_running
    /\ IF Decodes(k)
         THEN /\ kbd_key' = k
              /\ kbd_pc' = "acquire"
         ELSE /\ kbd_pc' = "crashed"
              /\ UNCHANGED kbd_key
    /\ UNCHANGED << is_running, stops, params, audio_queue, param_lock, main_pc,
                    streams, kbd_before, capture_vars, outdata, history_vars,
                    mix_vars >>

\* Line 130: with self.param_lock.
KbdAcquire ==
    /\ kbd_pc = "acquire"
    /\ param_lock = "free"
    /\ param_lock' = "keyboard"
    /\ kbd_pc' = "locked"
    /\ UNCHANGED << is_running, stops, params, audio_queue, main_pc, streams,
                    kbd_key, kbd_before, capture_vars, outdata, history_vars, mix_vars >>

\* The assignments of lines 131-152, by key.
NewCenter(k, ca) ==
    IF k = "1" THEN Max(ParamMin, ca - CenterStep)
    ELSE IF k = "2" THEN Min(CenterMax, ca + CenterStep)
    ELSE IF k = "r" THEN DefaultCenter
    ELSE ca

\* An r branch without line 150.
NewVocalKeptOnReset(k, vrm) ==
    IF k = "3" THEN Max(ParamMin, vrm - VocalStep)
    ELSE IF k = "4" THEN Min(VocalMax, vrm + VocalStep)
    ELSE vrm

NewVocal(k, vrm) ==
    IF k = "3" THEN Max(ParamMin, vrm - VocalStep)
    ELSE IF k = "4" THEN Min(VocalMax, vrm + VocalStep)
    ELSE IF k = "r" THEN DefaultVocal
    ELSE vrm

\* Lines 144 and 147 without max() and min().
NewVolumeUnclamped(k, mv) ==
    IF k = "5" THEN mv - VolumeStep
    ELSE IF k = "6" THEN mv + VolumeStep
    ELSE IF k = "r" THEN DefaultVolume
    ELSE mv

NewVolume(k, mv) ==
    IF k = "5" THEN Max(ParamMin, mv - VolumeStep)
    ELSE IF k = "6" THEN Min(VolumeMax, mv + VolumeStep)
    ELSE IF k = "r" THEN DefaultVolume
    ELSE mv

\* A q branch without line 157.
QuitIgnored(k, running) == running

\* Line 157, for the key it belongs to.
QuitRunning(k, running) == IF k = "q" THEN FALSE ELSE running

\* Whether the branch of key k ends the loop (line 158).
Breaks(k) == k = "q"

\* Lines 131-157, first statement of the branch taken, with the lock held: the
\* assignment of the field(s) for 1-6 and r, the print of line 156 for q,
\* nothing for any other key.
KbdUpdate ==
    /\ kbd_pc = "locked"
    /\ center_attenuation' = NewCenter(kbd_key, center_attenuation)
    /\ vocal_removal_mix' = NewVocal(kbd_key, vocal_removal_mix)
    /\ master_volume' = NewVolume(kbd_key, master_volume)
    /\ kbd_before' = params
    /\ kbd_pc' = "report"
    /\ UNCHANGED << is_running, stops, audio_queue, param_lock, main_pc, streams,
                    kbd_key, capture_vars, outdata, history_vars, mix_vars >>

\* A break that leaves the loop with the lock still held.
LockKeptOnBreak(k) == IF Breaks(k) THEN "keyboard" ELSE "free"

\* param_lock as the with statement of line 130 leaves it when the branch of
\* key k is over: released, also when line 158 breaks out of the loop from
\* inside the block.
LockAfterBranch(k) == "free"

\* The rest of the branch, still with the lock held, and the end of the with
\* block: the print (and display_controls for r) for 1-6 and r; for q line 157
\* and the break of line 158, which ends the thread.
KbdFinish ==
    /\ kbd_pc = "report"
    /\ SetRunning(QuitRunning(kbd_key, is_running))
    /\ param_lock' = LockAfterBranch(kbd_key)
    /\ kbd_pc' = IF Breaks(kbd_key) THEN "done" ELSE "poll"
    /\ kbd_key' = NoKey
    /\ kbd_before' = << >>
    /\ UNCHANGED << params, audio_queue, main_pc, streams, capture_vars,
                    outdata, history_vars, mix_vars >>

----------------------------------------------------------------------------
\* input_callback and process_audio.

\* Whether process_audio raises on a block of this shape: a (frames, 0) block
\* takes the branch of line 46 and audio_data[:, 0] of line 48 raises IndexError.
Raises(shape) == shape = "zero_channels"

\* An error that leaves input_callback: the runtime aborts the stream.
AbortOnError(s) == "aborted"

\* Lines 91-92: the error is caught and printed, input_callback returns as
\* after any other invocation, and the stream, in state s, carries on.
StreamAfterError(s) == s

\* Lines 76-83 up to the with statement of line 55, for at most maxBlocks
\* blocks.  An error of process_audio is caught at line 91 and the callback
\* returns; a (frames, 1) block returns from process_audio at line 49 without
\* reading a parameter; nothing looks at the number of frames.
InputInvoke(status, shape, maxBlocks) ==
    /\ in_stream = "active"
    /\ in_pc = "idle"
    /\ produced < maxBlocks
    /\ fatal_reported' = (fatal_reported \/ status = "fatal")
    /\ IF Raises(shape)
         THEN /\ error_at' = IF error_at = NoValue THEN produced ELSE error_at
              /\ in_stream' = StreamAfterError(in_stream)
              /\ UNCHANGED << in_pc, in_block, produced, short_blocks >>
         ELSE /\ produced' = produced + 1
              /\ in_block' = produced + 1
              /\ short_blocks' = IF shape = "short_frames"
                                   THEN short_blocks \cup {produced + 1}
                                   ELSE short_blocks
              /\ in_pc' = IF shape = "mono" THEN "put" ELSE "acquire"
              /\ UNCHANGED << error_at, in_stream >>
    /\ UNCHANGED << is_running, stops, params, audio_queue, param_lock, main_pc,
                    out_stream, keyboard_vars, snap_vrm, snap_ca, snap_mv,
                    outdata, played, dropped, mix_vars >>

\* process_audio reading the parameters without the with statement of line 55.
ProcAcquireNoLock ==
    /\ in_pc = "acquire"
    /\ in_pc' = "read_vrm"
    /\ UNCHANGED << is_running, stops, params, audio_queue, param_lock, main_pc,
                    streams, keyboard_vars, in_block, snap_vrm, snap_ca, snap_mv,
                    outdata, history_vars, mix_vars >>

\* Line 55.
ProcAcquire ==
    /\ in_pc = "acquire"
    /\ param_lock = "free"
    /\ param_lock' = "capture"
    /\ in_pc' = "read_vrm"
    /\ UNCHANGED << is_running, stops, params, audio_queue, main_pc, streams,
                    keyboard_vars, in_block, snap_vrm, snap_ca, snap_mv, outdata,
                    history_vars, mix_vars >>

\* Line 57.
ProcReadVocal ==
    /\ in_pc = "read_vrm"
    /\ snap_vrm' = vocal_removal_mix
    /\ in_pc' = "read_ca"
    /\ UNCHANGED << is_running, stops, params, audio_queue, param_lock, main_pc,
                    streams, keyboard_vars, in_block, snap_ca, snap_mv, outdata,
                    history_vars, mix_vars >>

\* Line 60.
ProcReadCenter ==
    /\ in_pc = "read_ca"
    /\ snap_ca' = center_attenuation
    /\ in_pc' = "read_mv"
    /\ UNCHANGED << is_running, stops, params, audio_queue, param_lock, main_pc,
                    streams, keyboard_vars, in_block, snap_vrm, snap_mv, outdata,
                    history_vars, mix_vars >>

\* Line 66.
ProcReadVolume ==
    /\ in_pc = "read_mv"
    /\ snap_mv' = master_volume
    /\ in_pc' = "mixed"
    /\ UNCHANGED << is_running, stops, params, audio_queue, param_lock, main_pc,
                    streams, keyboard_vars, in_block, snap_vrm, snap_ca, outdata,
                    history_vars, mix_vars >>

\* A with block that reaches down to the return: the lock is still held when
\* input_callback goes on to put_nowait.
ProcReleaseLate ==
    /\ in_pc = "mixed"
    /\ snap_vrm' = NoValue
    /\ snap_ca' = NoValue
    /\ snap_mv' = NoValue
    /\ in_pc' = "put"
    /\ UNCHANGED << is_running, stops, params, audio_queue, param_lock, main_pc,
                    streams, keyboard_vars, in_block, outdata, history_vars,
                    mix_vars >>

\* The end of the with block of line 55, then lines 69-74: the block is
\* computed and the locals of process_audio are gone.
ProcRelease ==
    /\ in_pc = "mixed"
    /\ param_lock' = "free"
    /\ snap_vrm' = NoValue
    /\ snap_ca' = NoValue
    /\ snap_mv' = NoValue
    /\ in_pc' = "put"
    /\ UNCHANGED << is_running, stops, params, audio_queue, main_pc, streams,
                    keyboard_vars, in_block, outdata, history_vars, mix_vars >>

\* Lines 86-89.
InputPut ==
    /\ in_pc = "put"
    /\ audio_queue' = PutNowait(audio_queue, in_block)
    /\ dropped' = IF Len(audio_queue) < QueueMaxSize THEN dropped
                                                       ELSE dropped \cup {in_block}
    /\ in_pc' = "idle"
    /\ in_block' = SilenceBlock
    /\ UNCHANGED << is_running, stops, params, param_lock, main_pc, streams,
                    keyboard_vars, snap_vrm, snap_ca, snap_mv, outdata,
                    produced, played, error_at, fatal_reported, short_blocks,
                    mix_vars >>

----------------------------------------------------------------------------
\* process_audio as a function of the block and the three parameters.  Samples
\* and parameters are finite numbers in hundredths; the products are kept exact
\* by expressing an output sample in units of 1 / (2 * 100 * 100 * 100), the 2
\* being the divisor of line 60.

\* 1.0 as an output sample.
OutputOne == 2 * One * One * One

\* An input sample as an output sample of the same value.
AsOutput(x) == x * 2 * One * One

\* Lines 57-66 for one frame: ((l - r) * vrm + ((l + r) / 2) * ca) * mv.
Mixed(l, r, vrm, ca, mv) == (2 * (l - r) * vrm + (l + r) * ca) * mv

\* A limiter that lets every sample through.
ClipNone(x, lo, hi) == x

\* np.clip of line 69.
Clip(x, lo, hi) == IF x < lo THEN lo ELSE IF x > hi THEN hi ELSE x

\* Lines 44-74.  A block with fewer than two channels takes lines 46-49: its
\* column 0 is stacked twice and returned as it is, and a block with no column
\* raises IndexError at line 48.  Otherwise columns 0 and 1 are mixed, clipped
\* and stacked twice.
ProcessAudio(block, vrm, ca, mv) ==
    IF block.channels < 2
      THEN IF block.channels = 0
             THEN [status |-> "IndexError", block |-> << >>]
             ELSE [status |-> "returned",
                   block |-> [i \in 1..Len(block.frames) |->
                                << AsOutput(block.frames[i][1]),
                                   AsOutput(block.frames[i][1]) >>]]
      ELSE [status |-> "returned",
            block |-> [i \in 1..Len(block.frames) |->
                         LET mixed == Clip(Mixed(block.frames[i][1], block.frames[i][2],
                                                 vrm, ca, mv),
                                           -OutputOne, OutputOne)
                         IN  << mixed, mixed >>]]

\* One call of process_audio on mix_input with the parameters as they are.
ProcessBlock ==
    /\ mix_input # NoBlock
    /\ mix_output = NoOutput
    /\ mix_output' = ProcessAudio(mix_input, vocal_removal_mix, center_attenuation,
                                  master_volume)
    /\ UNCHANGED << is_running, stops, params, audio_queue, param_lock, main_pc,
                    streams, keyboard_vars, capture_vars, outdata, history_vars,
                    mix_input >>

----------------------------------------------------------------------------
\* output_callback.

NumUnderruns == Cardinality({i \in 1..Len(played) : played[i] = Underrun})

\* Whether outdata[:] = data of line 103 raises ValueError: a block whose
\* number of frames is not that of outdata cannot be broadcast into it.
CopyRaises(b) == b \in short_blocks

\* An error that leaves a callback reaches the audio runtime, which aborts the
\* stream: the callback is not invoked again.
StreamAfterUncaught(s) == "aborted"

\* Lines 94-105: get_nowait and the copy to outdata, or queue.Empty and
\* outdata.fill(0); at most maxPlay invocations, maxUnderruns of them on an
\* empty queue.  Line 104 catches queue.Empty only.
OutputInvoke(status, maxPlay, maxUnderruns) ==
    /\ out_stream = "active"
    /\ Len(played) < maxPlay
    /\ fatal_reported' = (fatal_reported \/ status = "fatal")
    /\ IF audio_queue # << >>
         THEN /\ audio_queue' = GetNowaitRest(audio_queue)
              /\ played' = Append(played, GetNowaitItem(audio_queue))
              /\ IF CopyRaises(GetNowaitItem(audio_queue))
                   THEN /\ out_stream' = StreamAfterUncaught(out_stream)
                        /\ UNCHANGED outdata
                   ELSE /\ outdata' = GetNowaitItem(audio_queue)
                        /\ UNCHANGED out_stream
         ELSE /\ NumUnderruns < maxUnderruns
              /\ outdata' = FillSilence(outdata)
              /\ played' = Append(played, Underrun)
              /\ UNCHANGED << audio_queue, out_stream >>
    /\ UNCHANGED << is_running, stops, params, param_lock, main_pc, in_stream,
                    keyboard_vars, capture_vars, produced, dropped, error_at,
                    short_blocks, mix_vars >>

----------------------------------------------------------------------------
\* The threads.

Session ==
    \/ StartSession
    \/ StartKeyboardThread
    \/ Prefill
    \/ OpenStreams
    \/ OpenFail
    \/ WaitLoopSleep
    \/ WaitLoopWake
    \/ WaitLoopExit
    \/ Interrupt
    \/ SessionClosed

CaptureSteps ==
    \/ ProcAcquire
    \/ ProcReadVocal
    \/ ProcReadCenter
    \/ ProcReadVolume
    \/ ProcRelease
    \/ InputPut

KeyboardSteps ==
    \/ KbdExit
    \/ KbdAcquire
    \/ KbdUpdate
    \/ KbdFinish

\* One session in which the console delivers keys of `keys`, the runtime hands
\* the callbacks statuses of `statuses` and blocks of `shapes`, and invokes
\* them within the three bounds.
System(keys, statuses, shapes, maxBlocks, maxPlay, maxUnderruns) ==
    \/ Session
    \/ \E s \in statuses, sh \in shapes : InputInvoke(s, sh, maxBlocks)
    \/ CaptureSteps
    \/ \E s \in statuses : OutputInvoke(s, maxPlay, maxUnderruns)
    \/ \E k \in keys : KbdGetch(k)
    \/ KeyboardSteps

\* The audio pipeline at work: the blocks are well formed, the user may quit
\* or press a key the listener does not know.
PipelineKeys == {"q", "x"}

Next == System(PipelineKeys, {"ok", "glitch"}, {"stereo", "mono"},
               MaxBlocks, MaxPlay, MaxUnderruns)

Spec == Init /\ [][Next]_vars

\* The console at work: every key, while the runtime invokes no callback.
KeysNext ==
    \/ Session
    \/ \E k \in AllKeys : KbdGetch(k)
    \/ KeyboardSteps

KeysSpec == Init /\ [][KeysNext]_vars

\* The capture callback reading the parameters while the user changes them.
SnapKeys == {"1", "3", "r", "q"}

SnapNext == System(SnapKeys, {"ok"}, {"stereo"}, SmallBlocks, SmallPlay, SmallUnderruns)

SnapSpec == Init /\ [][SnapNext]_vars

\* Faults: any status, any shape.
FaultKeys == {"q"}

FaultNext == System(FaultKeys, Statuses, Shapes, SmallBlocks, SmallPlay, SmallUnderruns)

FaultSpec == Init /\ [][FaultNext]_vars

\* Blocks of every shape, with playback invocations enough to drain the
\* pre-fill and obtain what the capture callback pushed.
ShapeNext == System(FaultKeys, {"ok"}, Shapes, SmallBlocks, MaxPlay, SmallUnderruns)

ShapeSpec == Init /\ [][ShapeNext]_vars

\* The same session under the scheduling the threads get: start_processing goes
\* on whenever it can (the wait loop wakes from sd.sleep and tests is_running
\* again), a callback invocation that has begun runs to its end, and the
\* keyboard thread handles the key it has read.  That a key is pressed, that
\* the user interrupts, that a stream fails to open, or that the runtime
\* invokes a callback once more is up to the environment.
ControllerSteps ==
    \/ StartSession
    \/ StartKeyboardThread
    \/ Prefill
    \/ OpenStreams
    \/ WaitLoopSleep
    \/ WaitLoopWake
    \/ WaitLoopExit
    \/ SessionClosed

LiveSpec ==
    /\ FaultSpec
    /\ WF_vars(ControllerSteps)
    /\ WF_vars(CaptureSteps)
    /\ WF_vars(KeyboardSteps)

\* process_audio on its own: every block of MixFrames frames of up to three
\* channels with samples of MixSamples (beyond [-1, 1] included, as a device
\* delivering floats may produce), under parameters from the ends and the
\* middle of their ranges.
MixFrames == 1
MixSamples == {-150, -One, 0, One, 150}
MixCenters == {ParamMin, DefaultCenter, CenterMax}
MixVocals  == {ParamMin, VocalMax}
MixVolumes == {ParamMin, DefaultVolume, VolumeMax}
MixChannels == 0..3

RECURSIVE Tuples(_, _)
\* The tuples of n elements of S.
Tuples(n, S) ==
    IF n = 0 THEN {<< >>}
    ELSE {Append(t, x) : t \in Tuples(n - 1, S), x \in S}

MixBlocks ==
    UNION {{[channels |-> c, frames |-> f] :
                f \in Tuples(MixFrames, Tuples(c, MixSamples))} : c \in MixChannels}

MixInit ==
    /\ is_running = FALSE
    /\ center_attenuation \in MixCenters
    /\ vocal_removal_mix \in MixVocals
    /\ master_volume \in MixVolumes
    /\ audio_queue = << >>
    /\ param_lock = "free"
    /\ main_pc = "idle"
    /\ in_stream = "closed"
    /\ out_stream = "closed"
    /\ kbd_pc = "unstarted"
    /\ kbd_key = NoKey
    /\ kbd_before = << >>
    /\ in_pc = "idle"
    /\ in_block = SilenceBlock
    /\ snap_vrm = NoValue
    /\ snap_ca = NoValue
    /\ snap_mv = NoValue
    /\ outdata = SilenceBlock
    /\ produced = 0
    /\ played = << >>
    /\ dropped = {}
    /\ error_at = NoValue
    /\ fatal_reported = FALSE
    /\ short_blocks = {}
    /\ stops = 0
    /\ mix_input \in MixBlocks
    /\ mix_output = NoOutput

MixNext == ProcessBlock

MixSpec == MixInit /\ [][MixNext]_vars

----------------------------------------------------------------------------
\* Properties.

\* The queue as the pre-fill leaves it.
PrefilledQueue == PutSilence(<< >>, PrefillCount)

\* The blocks of the capture callback that playback obtained, in the order it
\* obtained them (no pre-fill silence, no underrun).
Delivered == SelectSeq(played, LAMBDA b : b > SilenceBlock)

\* The capture invocations that have come to their put.
Completed == IF in_pc = "idle" THEN produced ELSE produced - 1

\* C1: in every reachable state the transfer buffer holds between 0 and 20
\* (its capacity) blocks.
QueueSizeInRange ==
    /\ Len(audio_queue) >= 0
    /\ Len(audio_queue) <= QueueMaxSize

\* The buffer is full, a put has been refused, and playback has taken blocks.
QueueFullAfterDrop ==
    /\ Len(audio_queue) = QueueMaxSize
    /\ dropped # {}
    /\ played # << >>

\* C2: a put on a full buffer discards the new block and leaves the buffer as
\* it was; with nothing taken out, the buffer holds the first blocks put, in
\* the order they were put, and none after them.
DropNewestOnFull ==
    /\ [][(in_pc = "put" /\ in_pc' = "idle" /\ Len(audio_queue) = QueueMaxSize)
            => (audio_queue' = audio_queue /\ in_block \in dropped')]_vars
    /\ [](played = << >> /\ Len(audio_queue) >= PrefillCount
            => audio_queue = PrefilledQueue \o
                   [i \in 1..Min(Completed, QueueMaxSize - PrefillCount) |-> i])

\* Eleven blocks were put on the pre-filled buffer with nothing taken out: the
\* eleventh is the one discarded.
NewestDropped ==
    /\ played = << >>
    /\ Len(audio_queue) = QueueMaxSize
    /\ dropped = {QueueMaxSize - PrefillCount + 1}

\* C3: the blocks playback obtains are a subsequence of the blocks capture
\* produced: each was produced and put, they come in the order of production,
\* none comes twice.
FifoSubsequence ==
    /\ \A i \in 1..Len(Delivered) :
          /\ Delivered[i] \in 1..produced
          /\ Delivered[i] \notin dropped
    /\ \A i, j \in 1..Len(Delivered) : i < j => Delivered[i] < Delivered[j]

\* Playback has obtained three produced blocks while a fourth waits.
ThreeDelivered ==
    /\ Len(Delivered) >= 3
    /\ audio_queue # << >>

\* C4: an output_callback invocation that finds the buffer empty is never
\* kept waiting, writes silence, leaves the buffer empty and obtains nothing,
\* every time; what it writes is no block played before.
UnderrunWritesSilence ==
    /\ [][(played' # played /\ audio_queue = << >>)
            => /\ outdata' = SilenceBlock
               /\ audio_queue' = << >>
               /\ played' = Append(played, Underrun)
               /\ \A i \in 1..Len(Delivered) : outdata' # Delivered[i]]_vars
    /\ [](out_stream = "active" /\ audio_queue = << >>
          /\ Len(played) < MaxPlay /\ NumUnderruns < MaxUnderruns
            => ENABLED OutputInvoke("ok", MaxPlay, MaxUnderruns))

\* A produced block was played, then two invocations in a row found the buffer
\* empty.
UnderrunAfterBlock ==
    /\ Len(played) >= 3
    /\ played[Len(played) - 2] > SilenceBlock
    /\ played[Len(played) - 1] = Underrun
    /\ played[Len(played)] = Underrun
    /\ outdata = SilenceBlock

\* C8: when the streams open the buffer holds exactly the ten silence blocks
\* of the pre-fill, half its capacity, so each of the first ten output_callback
\* invocations obtains a block of the buffer.
PrefillBeforeStreams ==
    /\ [][((in_stream # "active" /\ in_stream' = "active")
           \/ (out_stream # "active" /\ out_stream' = "active"))
            => (audio_queue' = PrefilledQueue /\ 2 * Len(audio_queue') = QueueMaxSize)]_vars
    /\ [](\A i \in 1..Min(Len(played), PrefillCount) : played[i] # Underrun)

\* Ten invocations have each obtained a silence block and the capture callback
\* has not been invoked yet.
TenPlayedBeforeCapture ==
    /\ Len(played) = PrefillCount
    /\ \A i \in 1..PrefillCount : played[i] = SilenceBlock
    /\ produced = 0
    /\ audio_queue = << >>

\* C5: after any sequence of key presses the three parameters are within
\* their ranges, and a decrease key at the lower bound, or an increase key at
\* the upper bound, leaves the field at that bound.
ParamsInRange ==
    /\ [](/\ center_attenuation \in ParamMin..CenterMax
          /\ vocal_removal_mix \in ParamMin..VocalMax
          /\ master_volume \in ParamMin..VolumeMax)
    /\ [][(kbd_pc = "locked" /\ kbd_pc' = "report")
            => /\ (kbd_key = "1" /\ center_attenuation = ParamMin)
                    => center_attenuation' = ParamMin
               /\ (kbd_key = "2" /\ center_attenuation = CenterMax)
                    => center_attenuation' = CenterMax
               /\ (kbd_key = "3" /\ vocal_removal_mix = ParamMin)
                    => vocal_removal_mix' = ParamMin
               /\ (kbd_key = "4" /\ vocal_removal_mix = VocalMax)
                    => vocal_removal_mix' = VocalMax
               /\ (kbd_key = "5" /\ master_volume = ParamMin)
                    => master_volume' = ParamMin
               /\ (kbd_key = "6" /\ master_volume = VolumeMax)
                    => master_volume' = VolumeMax]_vars

\* All three fields are at a bound (the volume at its lower one, twenty
\* presses from the default) and the listener holds one more decrease of the
\* volume.
DecreaseAtLowerBound ==
    /\ kbd_pc = "locked"
    /\ kbd_key = "5"
    /\ master_volume = ParamMin
    /\ center_attenuation = CenterMax
    /\ vocal_removal_mix = ParamMin

\* C6: when the listener handles the quit key, is_running becomes FALSE and
\* the listener ends; an ended listener handles nothing more; is_running does
\* not become TRUE again in the session, so it goes from TRUE to FALSE once.
QuitStopsOnce ==
    /\ [][(kbd_pc = "report" /\ kbd_key = "q" /\ kbd_pc' # kbd_pc)
            => (~is_running' /\ kbd_pc' = "done")]_vars
    /\ [][kbd_pc = "done"
            => (kbd_pc' = "done" /\ kbd_key' = kbd_key /\ params' = params)]_vars
    /\ [][(main_pc # "idle" /\ ~is_running) => ~is_running']_vars
    /\ [](stops <= 1)

\* The quit key has been handled, with the session controller still in its
\* wait loop: the listener has ended after the one transition.
QuitHandled ==
    /\ kbd_pc = "done"
    /\ ~is_running
    /\ stops = 1
    /\ main_pc = "sleep"
    /\ param_lock = "free"

\* C7: the three values one process_audio invocation reads belong to one
\* parameter state: from its first read to the end of its locked region the
\* values it has read are the values of the fields, the lock is its own, and
\* the listener is outside its own locked region.
AtomicSnapshot ==
    /\ in_pc \in {"read_ca", "read_mv", "mixed"} => snap_vrm = vocal_removal_mix
    /\ in_pc \in {"read_mv", "mixed"} => snap_ca = center_attenuation
    /\ in_pc = "mixed" => snap_mv = master_volume
    /\ in_pc \in {"read_vrm", "read_ca", "read_mv", "mixed"}
         => (param_lock = "capture" /\ kbd_pc \notin {"locked", "report"})

\* process_audio has read two fields that are not at their defaults while the
\* listener waits for the lock with a reset.
ResetWaitsForSnapshot ==
    /\ in_pc = "read_mv"
    /\ snap_vrm # DefaultVocal
    /\ snap_ca # DefaultCenter
    /\ kbd_pc = "acquire"
    /\ kbd_key = "r"

\* C9: an error of process_audio inside input_callback does not leave the
\* callback: the invocation ends with nothing put, is_running and the
\* parameters as they were and the stream active, and the callback can be
\* invoked again and produce its block.
CaptureFaultContained ==
    /\ [][error_at' # error_at
            => /\ audio_queue' = audio_queue
               /\ is_running' = is_running
               /\ params' = params
               /\ param_lock' = param_lock
               /\ in_pc' = "idle"
               /\ in_stream' = "active"]_vars
    /\ [](error_at # NoValue /\ in_stream = "active" /\ in_pc = "idle"
          /\ produced < SmallBlocks
            => ENABLED InputInvoke("ok", "stereo", SmallBlocks))

\* A block produced after the error is in the buffer.
PushAfterFault ==
    /\ error_at # NoValue
    /\ \E i \in 1..Len(audio_queue) : audio_queue[i] > error_at

\* C10: once a callback has been handed a fatal status in a running session,
\* the session controller comes to set is_running to FALSE and to close the
\* session, whether or not the user quits or interrupts.
FatalLeadsToShutdown ==
    (fatal_reported /\ main_pc \in {"wait", "sleep"})
        ~> (~is_running /\ main_pc = "closed")

\* C11: once is_running is FALSE in an open session (the quit key), or the
\* user has interrupted, the wait loop ends and start_processing closes the
\* session; a closed session has both streams closed and no callback
\* invocation in flight, and no callback runs in it; an invocation in flight
\* always comes to its end.
CooperativeShutdown ==
    /\ (~is_running /\ main_pc \in {"wait", "sleep"}) ~> (main_pc = "closed")
    /\ (main_pc = "interrupted") ~> (main_pc = "closed" /\ ~is_running)
    /\ (in_pc # "idle") ~> (in_pc = "idle")
    /\ [](main_pc = "closed"
            => (in_stream # "active" /\ out_stream # "active" /\ in_pc = "idle"))
    /\ [][main_pc = "closed"
            => (main_pc' = "closed" /\ produced' = produced /\ played' = played
                /\ audio_queue' = audio_queue /\ outdata' = outdata)]_vars

\* The quit key has been handled and the streams are closed while an
\* input_callback invocation is still on its way to its put.
InFlightAtShutdown ==
    /\ main_pc = "closing"
    /\ ~is_running
    /\ kbd_pc = "done"
    /\ in_pc = "put"

\* The values __init__ gives the three parameters (lines 19-21).
Defaults == << DefaultCenter, DefaultVocal, DefaultVolume >>

\* C12: handling the reset key sets (center_attenuation, vocal_removal_mix,
\* master_volume) to exactly (0.6, 1.0, 1.0) whatever they were, and neither
\* the assignments nor the rest of the branch change is_running or the queue.
ResetToDefaults ==
    /\ [][(kbd_pc = "locked" /\ kbd_key = "r" /\ kbd_pc' # kbd_pc)
            => /\ << center_attenuation', vocal_removal_mix', master_volume' >> = Defaults
               /\ is_running' = is_running
               /\ audio_queue' = audio_queue]_vars
    /\ [][(kbd_pc = "report" /\ kbd_key = "r" /\ kbd_pc' # kbd_pc)
            => /\ << center_attenuation', vocal_removal_mix', master_volume' >> = Defaults
               /\ is_running' = is_running
               /\ audio_queue' = audio_queue
               /\ kbd_pc' = "poll"]_vars
    /\ []((kbd_pc = "report" /\ kbd_key = "r")
            => << center_attenuation, vocal_removal_mix, master_volume >> = Defaults)

\* The reset key handled with none of the three parameters at its default.
ResetFromElsewhere ==
    /\ kbd_pc = "report" /\ kbd_key = "r"
    /\ kbd_before[1] # DefaultCenter
    /\ kbd_before[2] # DefaultVocal
    /\ kbd_before[3] # DefaultVolume
    /\ << center_attenuation, vocal_removal_mix, master_volume >> = Defaults
    /\ is_running
    /\ audio_queue # << >>

\* C13: a key press that is not one of the eight recognized keys changes
\* neither the three parameters nor is_running, and the listener keeps
\* polling: it never ends on such a key, so a later key is still handled.
UnrecognizedKeysIgnored ==
    /\ [][(kbd_pc = "poll" /\ kbd_pc' \notin {"poll", "done"})
            => (kbd_pc' = "acquire" /\ kbd_key' \in AllKeys)]_vars
    /\ [][(kbd_key \in AllKeys \ RecognizedKeys /\ kbd_pc' # kbd_pc)
            => /\ params' = params
               /\ is_running' = is_running
               /\ kbd_pc' \in {"locked", "report", "poll"}]_vars
    /\ []((is_running /\ kbd_pc # "unstarted") => kbd_pc \notin {"done", "crashed"})

\* Every sample of the block process_audio returned lies in [-1, 1].
OutputInUnit ==
    \A i \in 1..Len(mix_output.block) : \A c \in 1..2 :
        /\ -OutputOne <= mix_output.block[i][c]
        /\ mix_output.block[i][c] <= OutputOne

\* C14: for all parameters within their ranges and all input blocks, mono or
\* of two or more channels, every sample of every block process_audio returns
\* lies in [-1, 1].
LimiterAllBlocks == (mix_output.status = "returned") => OutputInUnit

\* What process_audio does guarantee: for a block of two or more channels
\* every sample it returns lies in [-1, 1]; a mono block is returned as it came,
\* once per output channel, so its samples lie in [-1, 1] exactly when those of
\* the input do.
LimiterOnMixedPath ==
    (mix_output.status = "returned")
        => /\ Len(mix_output.block) = Len(mix_input.frames)
           /\ \A i \in 1..Len(mix_output.block) :
                  mix_output.block[i][1] = mix_output.block[i][2]
           /\ (mix_input.channels >= 2) => OutputInUnit
           /\ (mix_input.channels = 1)
                  => \A i \in 1..Len(mix_output.block) :
                        mix_output.block[i][1] = AsOutput(mix_input.frames[i][1])

\* The limiter at work: L = 1.0, R = -1.0 with vocal removal 1.0, no centre
\* and volume 1.0 mixes to 2.0 and is returned as 1.0.
MixClipped ==
    /\ mix_output.status = "returned"
    /\ mix_input.channels = 2
    /\ mix_input.frames[1] = << One, -One >>
    /\ << center_attenuation, vocal_removal_mix, master_volume >> = << ParamMin, VocalMax, One >>
    /\ Mixed(One, -One, vocal_removal_mix, center_attenuation, master_volume) = 2 * OutputOne
    /\ mix_output.block[1] = << OutputOne, OutputOne >>

\* process_audio is at one of lines 57-66: its next statement is arithmetic on
\* the whole block (the product with a parameter, the sum of line 63).
CaptureAtMixMath == in_pc \in {"read_vrm", "read_ca", "read_mv"}

\* keyboard_listener is at a print: the status line after the assignment of a
\* 1-6 or r branch, or line 156, the first statement of the q branch.
KeyboardAtPrint ==
    \/ kbd_pc = "report" /\ kbd_key \in RecognizedKeys \ {"q"}
    \/ kbd_pc = "locked" /\ kbd_key = "q"

\* C15: param_lock is held only while the three parameters are read or
\* updated: never while the capture callback does the arithmetic of the mix,
\* never while the keyboard listener prints a status line, so no callback
\* waits for the lock while a line is being printed.
LockOnlyAroundParameters ==
    /\ ~(param_lock = "capture" /\ CaptureAtMixMath)
    /\ ~(param_lock = "keyboard" /\ KeyboardAtPrint)
    /\ ~(in_pc = "acquire" /\ param_lock = "keyboard" /\ KeyboardAtPrint)

\* C16: the result of process_audio for a malformed block (no channel, or a
\* number of frames that is not block_size) is not pushed: no block of the
\* queue has a wrong number of frames, and output_callback never obtains a
\* block it cannot copy to outdata.
MalformedNeverEnqueued ==
    /\ (in_pc = "put") => in_block \notin short_blocks
    /\ \A i \in 1..Len(audio_queue) : audio_queue[i] \notin short_blocks
    /\ \A i \in 1..Len(played) : played[i] \notin short_blocks
    /\ out_stream # "aborted"

\* The streams are open: start_processing is past line 192.
StreamsOpened == main_pc \notin {"idle", "start_thread", "prefill", "open"}

\* C17: the keyboard thread is started only once the queue has been
\* pre-filled and both streams are open, and no key press is handled before
\* the streams are open.
StartupOrdering ==
    /\ [][(kbd_pc = "unstarted" /\ kbd_pc' # "unstarted")
            => (Len(audio_queue) >= PrefillCount
                /\ in_stream = "active" /\ out_stream = "active")]_vars
    /\ [](kbd_pc \in {"acquire", "locked", "report"} => StreamsOpened)

\* C18: on every path by which start_processing ends the session, both
\* streams are closed and the keyboard thread has ended by the time
\* start_processing returns, and the thread handles no key press afterwards.
ShutdownJoinsThread ==
    /\ [](main_pc = "closed"
            => /\ in_stream # "active" /\ out_stream # "active"
               /\ kbd_pc \in {"done", "crashed"})
    /\ [][main_pc = "closed"
            => (keyboard_vars' = keyboard_vars /\ params' = params
                /\ param_lock' = param_lock)]_vars

\* C19: param_lock is released on every exit path: input_callback does not
\* hold it once process_audio is over, whether it returned a block or raised
\* an error that line 91 caught; keyboard_listener has released it when it
\* has finished with a key, the quit key that breaks out of the locked block
\* included; and no thread that has ended holds it.
LockReleasedOnExit ==
    /\ [](in_pc \in {"idle", "put"} => param_lock # "capture")
    /\ [](kbd_pc \in {"unstarted", "poll", "acquire", "done", "crashed"}
            => param_lock # "keyboard")
    /\ [][(in_pc = "mixed" /\ in_pc' # in_pc) => param_lock' = "free"]_vars
    /\ [][(kbd_pc = "report" /\ kbd_pc' # kbd_pc) => param_lock' = "free"]_vars
    /\ []((main_pc = "closed" /\ kbd_pc = "done") => param_lock = "free")

\* The listener has ended on the quit key, the capture callback has returned
\* both with a block and after a caught error, and the lock is free.
QuitLeavesLockFree ==
    /\ kbd_pc = "done" /\ main_pc = "wait" /\ ~is_running /\ stops = 1
    /\ in_pc = "idle" /\ produced >= 1 /\ error_at # NoValue
    /\ param_lock = "free"

\* A thread waits at its with statement for param_lock.
CaptureWaits == in_pc = "acquire" /\ param_lock # "free"
KeyboardWaits == kbd_pc = "acquire" /\ param_lock # "free"

\* C20: the locks are never nested.  The capture callback is at put_nowait
\* only with param_lock released, the keyboard listener and a thread holding
\* param_lock never touch the queue, and the queue's own lock is held inside
\* put_nowait, get_nowait and put only.  Hence whoever holds param_lock can
\* always take its next step, and the threads are never all waiting for locks.
NoLockNesting ==
    /\ []((in_pc = "put") => param_lock # "capture")
    /\ [][audio_queue' # audio_queue
            => /\ keyboard_vars' = keyboard_vars
               /\ param_lock' = param_lock
               /\ (in_pc' # in_pc => param_lock # "capture")]_vars
    /\ []((param_lock = "capture")
            => (in_pc \in {"read_vrm", "read_ca", "read_mv", "mixed"}
                /\ ENABLED CaptureSteps))
    /\ []((param_lock = "keyboard")
            => (kbd_pc \in {"locked", "report"} /\ ENABLED KeyboardSteps))
    /\ []((param_lock = "free" /\ in_pc = "acquire") => ENABLED ProcAcquire)
    /\ []((param_lock = "free" /\ kbd_pc = "acquire") => ENABLED KbdAcquire)
    /\ [](~(CaptureWaits /\ KeyboardWaits))

\* The capture callback waits for the lock in a running session while the
\* listener holds it, about to go on.
CaptureWaitsForKeyboard ==
    /\ is_running /\ main_pc \in {"wait", "sleep"}
    /\ CaptureWaits
    /\ param_lock = "keyboard"
    /\ kbd_pc = "locked"
    /\ audio_queue # << >>

============================================================================
